---- MODULE Spec2Model ----
(***************************************************************************)
(* DivineNex server (src/server.js): the publish handler POST /upload, the *)
(* listing GET /posts and the hourly cleanup job, over the two remote      *)
(* stores they share: Google Drive (blobs) and Firestore (posts, guests).  *)
(*                                                                         *)
(* Every await of the source is a step boundary. The first action of a     *)
(* request is the handler up to its first await; every other action is an  *)
(* awaited remote call, which takes effect on its store and resolves or    *)
(* rejects, together with the synchronous code around it.                  *)
(***************************************************************************)
EXTENDS Integers, Sequences, FiniteSets, TLC

(* ---------------------------------------------------------------------- *)
(* Program constants                                                       *)
(* ---------------------------------------------------------------------- *)
CLEANUP_HOURS == 24

WORD_LIMIT == 500

LISTING_LIMIT == 100

TtlMs == CLEANUP_HOURS * 3600 * 1000

(* ---------------------------------------------------------------------- *)
(* Bounds of the model                                                     *)
(* ---------------------------------------------------------------------- *)
\* The clock runs over 0..MaxMs and TtlMs..TtlMs+MaxMs (milliseconds).
MaxMs == 1

MaxNow == TtlMs + MaxMs

\* The clock values of the model: at most MaxMs past 0 or past TtlMs.
ClockValue(t) == t <= MaxNow /\ t % TtlMs <= MaxMs

\* Date.now() advances by a millisecond or by a whole time-to-live.
ClockSteps == {1, TtlMs}

Publishers == {"p1", "p2"}

Sweeps == {"timeout", "interval"}

GuestIds == {"", "g1"}

Titles == {"", "t"}

\* JavaScript null / undefined.
Null == [null |-> TRUE]

VARIABLES
  now,        \* the value Date.now() returns
  drive,      \* ids of the files that exist in the Drive folder
  drivePublic,\* ids of the files that carry the anyone/reader permission
  driveNext,  \* number of file ids Drive has assigned
  posts,      \* Firestore collection "posts": document id -> document
  postsNext,  \* number of auto ids generated by collection("posts").doc()
  guests,     \* Firestore collection "guests": document id -> document
  pub,        \* one request per client: position and locals
  sweep,      \* one cleanupExpiredPostsOnce run per timer
  listing     \* the last GET /posts: how its query ended, and its response

vars == <<now, drive, drivePublic, driveNext, posts, postsNext, guests, pub, sweep, listing>>

stores == <<drive, drivePublic, driveNext, posts, postsNext, guests>>

(* ---------------------------------------------------------------------- *)
(* Texts. A text is a string over two characters, a word character "w" and *)
(* a whitespace character " ". The requests carry texts of the shape       *)
(*   lead spaces, then `words` one-letter words separated by `gap` spaces, *)
(*   then trail spaces;                                                    *)
(* the state keeps the shape and Chars gives the string itself.            *)
(* ---------------------------------------------------------------------- *)
MkText(lead, words, gap, trail) == [lead |-> lead, words |-> words, gap |-> gap, trail |-> trail]

EmptyText == MkText(0, 0, 1, 0)

BodyLen(t) == IF t.words = 0 THEN 0 ELSE t.words + (t.words - 1) * t.gap

Chars(t) ==
  [i \in 1..(t.lead + BodyLen(t) + t.trail) |->
     IF i <= t.lead \/ i > t.lead + BodyLen(t) THEN " "
     ELSE IF (i - t.lead - 1) % (1 + t.gap) = 0 THEN "w" ELSE " "]

IsWs(c) == c = " "

\* Start positions of the matches of /\s+/ in s (leftmost, greedy).
MatchStarts(s) == {i \in 1..Len(s) : IsWs(s[i]) /\ (i = 1 \/ ~IsWs(s[i - 1]))}

\* s.split(/\s+/).length: one piece more than there are separators; a
\* separator at either end of s yields an empty piece there.
SplitLength(s) == Cardinality(MatchStarts(s)) + 1

\* Number of words of s: maximal runs of non-whitespace characters.
WordCount(s) == Cardinality({i \in 1..Len(s) : ~IsWs(s[i]) /\ (i = 1 \/ IsWs(s[i - 1]))})

\* text && text.split(/\s+/).length > 500   ("" is falsy)
TextTooLong(t) == Len(Chars(t)) > 0 /\ SplitLength(Chars(t)) > WORD_LIMIT

SmallTexts == {MkText(0, 2, 1, 0)}

BoundaryTexts ==
  {MkText(lead, words, gap, trail) :
     lead \in {0, 1}, words \in {WORD_LIMIT - 1, WORD_LIMIT, WORD_LIMIT + 1},
     gap \in {1, 2}, trail \in {0, 1}}

(* ---------------------------------------------------------------------- *)
(* Documents                                                               *)
(* ---------------------------------------------------------------------- *)
NoDocs == [x \in {} |-> x]

\* A set without { merge: true }: the document is replaced by the given fields.
SetOverwrite(coll, id, fields) == (id :> fields) @@ coll

\* ref.set(fields, { merge: true }): the given fields overwrite, the others stay.
SetMerge(coll, id, fields) ==
  (id :> (IF id \in DOMAIN coll THEN fields @@ coll[id] ELSE fields)) @@ coll

\* ref.set(doc): the document is created or replaced as a whole.
SetDoc(coll, id, doc) == (id :> doc) @@ coll

\* ref.delete(): no error when the document does not exist.
DeleteDoc(coll, id) == [x \in DOMAIN coll \ {id} |-> coll[x]]

RegisteredGuest ==
  [name |-> "n", email |-> "G1", phone |-> "1", guestId |-> "g1", updatedAt |-> 0,
   friends |-> <<"g2">>]

InitGuests == {NoDocs, "g1" :> RegisteredGuest}

(* ---------------------------------------------------------------------- *)
(* Requests and responses of POST /upload                                  *)
(* ---------------------------------------------------------------------- *)
UploadFile == [originalname |-> "a.png"]

Requests(guestIds, titles, texts) ==
  [guestId : guestIds, title : titles, text : texts, file : {Null, UploadFile}]

\* pc: "idle" (no request yet), "upload", "permission", "store",
\* "guest", "done". data is resp.data of drive.files.create, docRef the
\* document reference (an object with an id); calls is the list of the
\* remote calls the request has made, with their outcome.
IdlePub ==
  [pc |-> "idle", req |-> Null, data |-> Null, fileMeta |-> Null, docRef |-> Null,
   payload |-> Null, resp |-> Null, calls |-> <<>>]

Json(status, body) == [status |-> status, body |-> body]

Call(op, ok) == [op |-> op, ok |-> ok]

FileUrl(fileId) == <<"https://drive.google.com/uc?id=", fileId>>

\* The name of the uploaded file, made of originalname. Its Date.now()
\* prefix is left out (nothing reads the name); the names of the model hold
\* no whitespace and are shorter than 200 characters.
FileName(originalname) == <<"_", originalname>>

\* pc: "idle" or "deleting" (waiting in Promise.all); pending is the set of
\* the deletes of the run that have not settled yet, settled the deletes of
\* the last run that have, each with its outcome; fired tells that the timer
\* has fired at least once.
IdleSweep == [pc |-> "idle", pending |-> {}, settled |-> {}, fired |-> FALSE]

Init ==
  /\ now = 0
  /\ drive = {}
  /\ drivePublic = {}
  /\ driveNext = 0
  /\ posts = NoDocs
  /\ postsNext = 0
  /\ guests \in InitGuests
  /\ pub = [p \in Publishers |-> IdlePub]
  /\ sweep = [s \in Sweeps |-> IdleSweep]
  /\ listing = [query |-> "none", resp |-> Null]

\* The clock advances.
Tick ==
  /\ \E d \in ClockSteps : ClockValue(now + d) /\ now' = now + d
  /\ UNCHANGED <<stores, pub, sweep, listing>>

(* ---------------------------------------------------------------------- *)
(* POST /upload                                                            *)
(* ---------------------------------------------------------------------- *)
\* The handler without its check of the required fields.
HandleFromUnchecked(p, requests) ==
  /\ pub[p].pc = "idle"
  /\ \E r \in requests :
       IF TextTooLong(r.text)
         THEN pub' = [pub EXCEPT ![p].req = r, ![p].pc = "done",
                       ![p].resp = Json(400, [error |-> "text_too_long"])]
       ELSE pub' = [pub EXCEPT ![p].req = r,
                               ![p].pc = IF r.file # Null THEN "upload" ELSE "store"]
  /\ UNCHANGED <<now, stores, sweep, listing>>

\* A request arrives (multer has put the fields in req.body and the file, when
\* there is one, in req.file) and the handler runs up to its first await: the
\* required fields and the word limit are checked, then req.file is looked at.
HandleFrom(p, requests) ==
  /\ pub[p].pc = "idle"
  /\ \E r \in requests :
       IF r.guestId = "" \/ r.title = ""
         THEN pub' = [pub EXCEPT ![p].req = r, ![p].pc = "done",
                       ![p].resp = Json(400, [error |-> "guestId & title required"])]
       ELSE IF TextTooLong(r.text)
         THEN pub' = [pub EXCEPT ![p].req = r, ![p].pc = "done",
                       ![p].resp = Json(400, [error |-> "text_too_long"])]
       ELSE pub' = [pub EXCEPT ![p].req = r,
                               ![p].pc = IF r.file # Null THEN "upload" ELSE "store"]
  /\ UNCHANGED <<now, stores, sweep, listing>>

\* Any request: "" stands for a missing or empty field.
Handle(p) == HandleFrom(p, Requests(GuestIds, Titles, SmallTexts))

\* A request with its required fields.
HandleValid(p) == HandleFrom(p, Requests({"g1"}, {"t"}, SmallTexts))

\* A request with its required fields and no file.
HandleNoFile(p) ==
  HandleFrom(p, {r \in Requests({"g1"}, {"t"}, SmallTexts) : r.file = Null})

\* A request with its required fields and a text at the word limit.
HandleBoundary(p) == HandleFrom(p, Requests({"g1"}, {"t"}, BoundaryTexts))

\* multer({ storage, limits: { fileSize: 20 * 1024 * 1024 } })
FILE_SIZE_LIMIT == 20 * 1024 * 1024

FileSizes == {FILE_SIZE_LIMIT - 1, FILE_SIZE_LIMIT, FILE_SIZE_LIMIT + 1, 25 * 1024 * 1024}

\* Requests whose file, when there is one, has a size in bytes.
SizedRequests ==
  [guestId : GuestIds, title : Titles, text : SmallTexts,
   file : {Null} \cup {[originalname |-> "a.png", size |-> n] : n \in FileSizes}]

\* multer({ storage }): no limit, every file reaches the handler.
UploadSingleNoLimit(p, requests) == HandleFrom(p, requests)

\* upload.single("file"), then the handler: a file larger than fileSize makes
\* multer pass a MulterError (LIMIT_FILE_SIZE) to next(), the handler is not
\* called and express answers with its error response.
UploadSingle(p, requests) ==
  \/ /\ pub[p].pc = "idle"
     /\ \E r \in requests :
          /\ r.file # Null
          /\ r.file.size > FILE_SIZE_LIMIT
          /\ pub' = [pub EXCEPT ![p].req = r, ![p].pc = "done",
                                ![p].resp = Json(500, [error |-> "LIMIT_FILE_SIZE"])]
     /\ UNCHANGED <<now, stores, sweep, listing>>
  \/ HandleFrom(p, {r \in requests : r.file = Null \/ r.file.size <= FILE_SIZE_LIMIT})

\* A request with a file of about the size limit.
HandleSized(p) == UploadSingle(p, SizedRequests)

\* The catch block of the handler.
UploadFailed(p, op) ==
  pub' = [pub EXCEPT ![p].pc = "done",
                     ![p].calls = Append(@, Call(op, FALSE)),
                     ![p].resp = Json(500, [error |-> "upload_failed", detail |-> op])]

\* drive.files.create answers with an id before Drive holds the file.
UploadOkNotCreated(p) ==
  /\ pub[p].pc = "upload"
  /\ LET fileId == driveNext + 1 IN
       /\ driveNext' = fileId
       /\ pub' = [pub EXCEPT ![p].pc = "permission",
                             ![p].calls = Append(@, Call("drive.files.create", TRUE)),
                             ![p].data = [id |-> fileId,
                                          name |-> FileName(pub[p].req.file.originalname)]]
  /\ UNCHANGED <<now, drive, drivePublic, posts, postsNext, guests, sweep, listing>>

\* await drive.files.create(...) resolves: Drive holds a new file.
UploadOk(p) ==
  /\ pub[p].pc = "upload"
  /\ LET fileId == driveNext + 1 IN
       /\ driveNext' = fileId
       /\ drive' = drive \cup {fileId}
       /\ pub' = [pub EXCEPT ![p].pc = "permission",
                             ![p].calls = Append(@, Call("drive.files.create", TRUE)),
                             ![p].data = [id |-> fileId,
                                          name |-> FileName(pub[p].req.file.originalname)]]
  /\ UNCHANGED <<now, drivePublic, posts, postsNext, guests, sweep, listing>>

\* The rejection of drive.files.create swallowed: the handler goes on without a file.
UploadFailSwallowed(p) ==
  /\ pub[p].pc = "upload"
  /\ pub' = [pub EXCEPT ![p].pc = "store",
                        ![p].calls = Append(@, Call("drive.files.create", FALSE))]
  /\ UNCHANGED <<now, stores, sweep, listing>>

\* await drive.files.create(...) throws.
UploadFail(p) ==
  /\ pub[p].pc = "upload"
  /\ UploadFailed(p, "drive.files.create")
  /\ UNCHANGED <<now, stores, sweep, listing>>

SetFileMeta(p, ok) ==
  pub' = [pub EXCEPT ![p].pc = "store",
                     ![p].calls = Append(@, Call("drive.permissions.create", ok)),
                     ![p].fileMeta = [id |-> pub[p].data.id, url |-> FileUrl(pub[p].data.id),
                                      name |-> pub[p].data.name]]

\* await drive.permissions.create(...).catch(() => {}) after the grant.
PermissionOk(p) ==
  /\ pub[p].pc = "permission"
  /\ pub[p].data.id \in drive
  /\ drivePublic' = drivePublic \cup {pub[p].data.id}
  /\ SetFileMeta(p, TRUE)
  /\ UNCHANGED <<now, drive, driveNext, posts, postsNext, guests, sweep, listing>>

\* The grant without its .catch: the rejection reaches the catch block.
PermissionFailAborts(p) ==
  /\ pub[p].pc = "permission"
  /\ UploadFailed(p, "drive.permissions.create")
  /\ UNCHANGED <<now, stores, sweep, listing>>

\* The grant is rejected and the rejection is swallowed.
PermissionFail(p) ==
  /\ pub[p].pc = "permission"
  /\ SetFileMeta(p, FALSE)
  /\ UNCHANGED <<now, stores, sweep, listing>>

\* The payload literal: Date.now() is read once for createdAt and once more
\* for expiresAt, d milliseconds later.
Payload(p, d) ==
  [guestId |-> pub[p].req.guestId, title |-> pub[p].req.title, text |-> pub[p].req.text,
   file |-> pub[p].fileMeta, createdAt |-> now, expiresAt |-> now + d + TtlMs]

ClockDrifts == {d \in {0} \cup ClockSteps : ClockValue(now + d)}

\* doc() generates an id, the payload is built, await docRef.set(payload) resolves.
StoreOk(p) ==
  /\ pub[p].pc = "store"
  /\ \E d \in ClockDrifts :
       LET id == postsNext + 1 IN
         /\ now' = now + d
         /\ postsNext' = id
         /\ posts' = SetDoc(posts, id, Payload(p, d))
         /\ pub' = [pub EXCEPT ![p].pc = "guest", ![p].docRef = [id |-> id],
                               ![p].payload = Payload(p, d),
                               ![p].calls = Append(@, Call("posts.set", TRUE))]
  /\ UNCHANGED <<drive, drivePublic, driveNext, guests, sweep, listing>>

\* await docRef.set(payload) throws.
StoreFail(p) ==
  /\ pub[p].pc = "store"
  /\ \E d \in ClockDrifts :
       LET id == postsNext + 1 IN
         /\ now' = now + d
         /\ postsNext' = id
         /\ pub' = [pub EXCEPT ![p].pc = "done", ![p].docRef = [id |-> id],
                               ![p].payload = Payload(p, d),
                               ![p].calls = Append(@, Call("posts.set", FALSE)),
                               ![p].resp = Json(500, [error |-> "upload_failed",
                                                      detail |-> "posts.set"])]
  /\ UNCHANGED <<drive, drivePublic, driveNext, posts, guests, sweep, listing>>

\* await guests.doc(guestId).set({ lastPostAt }, { merge: true }) resolves,
\* and the handler answers { success, id, payload }.
GuestSetOk(p) ==
  /\ pub[p].pc = "guest"
  /\ guests' = SetMerge(guests, pub[p].req.guestId, [lastPostAt |-> now])
  /\ pub' = [pub EXCEPT ![p].pc = "done",
                        ![p].calls = Append(@, Call("guests.set", TRUE)),
                        ![p].resp = Json(200, [success |-> TRUE, id |-> pub[p].docRef.id,
                                               payload |-> pub[p].payload])]
  /\ UNCHANGED <<now, drive, drivePublic, driveNext, posts, postsNext, sweep, listing>>

\* The write of lastPostAt throws.
GuestSetFail(p) ==
  /\ pub[p].pc = "guest"
  /\ UploadFailed(p, "guests.set")
  /\ UNCHANGED <<now, stores, sweep, listing>>

\* The handler after its first await.
Continue(p) ==
  \/ UploadOk(p)
  \/ UploadFail(p)
  \/ PermissionOk(p)
  \/ PermissionFail(p)
  \/ StoreOk(p)
  \/ StoreFail(p)
  \/ GuestSetOk(p)
  \/ GuestSetFail(p)

(* ---------------------------------------------------------------------- *)
(* POST /guest and POST /friend                                            *)
(* ---------------------------------------------------------------------- *)
\* The emails of the requests, as sequences of characters; <<>> stands for a
\* missing or empty field.
Emails == {<<>>, <<"G", "1">>, <<"g", "@", "2">>}

IsAlnum(c) == c \in {"G", "g", "1", "2"}

ToLowerCase(c) == IF c = "G" THEN "g" ELSE c

\* email.replace(/[^a-zA-Z0-9]/g, "_").toLowerCase()
GuestIdChars(email) ==
  [i \in 1..Len(email) |-> ToLowerCase(IF IsAlnum(email[i]) THEN email[i] ELSE "_")]

\* The string made of the given characters.
Str(chars) ==
  CASE chars = <<>> -> ""
    [] chars = <<"G", "1">> -> "G1"
    [] chars = <<"g", "1">> -> "g1"
    [] chars = <<"g", "@", "2">> -> "g@2"
    [] chars = <<"g", "_", "2">> -> "g_2"

GuestRequests == [name : {"", "n2"}, email : Emails, phone : {"", "2"}]

FriendRequests == [guestId : {"", "g1", "g3"}, friendId : {"", "g2", "g3"}]

\* POST /guest up to its await.
GuestHandle(p) ==
  /\ pub[p].pc = "idle"
  /\ \E r \in GuestRequests :
       IF r.name = "" \/ r.email = <<>> \/ r.phone = ""
         THEN pub' = [pub EXCEPT ![p].req = r, ![p].pc = "done",
                       ![p].resp = Json(400, [error |-> "Missing name/email/phone"])]
       ELSE pub' = [pub EXCEPT ![p].req = r, ![p].pc = "profile"]
  /\ UNCHANGED <<now, stores, sweep, listing>>

\* await guests.doc(guestId).set({ name, email, phone, guestId, updatedAt },
\* { merge: true }) resolves.
GuestUpsertOk(p) ==
  /\ pub[p].pc = "profile"
  /\ LET guestId == Str(GuestIdChars(pub[p].req.email)) IN
       /\ guests' = SetMerge(guests, guestId,
                             [name |-> pub[p].req.name, email |-> Str(pub[p].req.email),
                              phone |-> pub[p].req.phone, guestId |-> guestId,
                              updatedAt |-> now])
       /\ pub' = [pub EXCEPT ![p].pc = "done",
                             ![p].calls = Append(@, Call("guests.set", TRUE)),
                             ![p].resp = Json(200, [success |-> TRUE, guestId |-> guestId])]
  /\ UNCHANGED <<now, drive, drivePublic, driveNext, posts, postsNext, sweep, listing>>

\* The set throws: the catch block answers.
GuestUpsertFail(p) ==
  /\ pub[p].pc = "profile"
  /\ pub' = [pub EXCEPT ![p].pc = "done",
                        ![p].calls = Append(@, Call("guests.set", FALSE)),
                        ![p].resp = Json(500, [error |-> "server_error"])]
  /\ UNCHANGED <<now, stores, sweep, listing>>

\* POST /friend up to its await.
FriendHandle(p) ==
  /\ pub[p].pc = "idle"
  /\ \E r \in FriendRequests :
       IF r.guestId = "" \/ r.friendId = ""
         THEN pub' = [pub EXCEPT ![p].req = r, ![p].pc = "done",
                       ![p].resp = Json(400, [error |-> "missing"])]
       ELSE pub' = [pub EXCEPT ![p].req = r, ![p].pc = "friend"]
  /\ UNCHANGED <<now, stores, sweep, listing>>

Elements(arr) == {arr[k] : k \in 1..Len(arr)}

\* An append in place of arrayUnion.
ArrayPush(arr, x) == Append(arr, x)

\* FieldValue.arrayUnion(x) applied to the array arr: x is added at the end
\* unless arr holds it already.
ArrayUnion(arr, x) == IF x \in Elements(arr) THEN arr ELSE Append(arr, x)

\* The value of the field friends of guest g; a document without the field,
\* or no document, is given a new array.
FriendsOf(coll, g) ==
  IF g \in DOMAIN coll /\ "friends" \in DOMAIN coll[g] THEN coll[g].friends ELSE <<>>

\* await ref.set({ friends: arrayUnion(friendId) }, { merge: true }) resolves.
FriendAddOk(p) ==
  /\ pub[p].pc = "friend"
  /\ guests' = SetMerge(guests, pub[p].req.guestId,
                        [friends |-> ArrayUnion(FriendsOf(guests, pub[p].req.guestId),
                                                pub[p].req.friendId)])
  /\ pub' = [pub EXCEPT ![p].pc = "done",
                        ![p].calls = Append(@, Call("guests.set", TRUE)),
                        ![p].resp = Json(200, [success |-> TRUE])]
  /\ UNCHANGED <<now, drive, drivePublic, driveNext, posts, postsNext, sweep, listing>>

\* The set throws: the catch block answers.
FriendAddFail(p) ==
  /\ pub[p].pc = "friend"
  /\ pub' = [pub EXCEPT ![p].pc = "done",
                        ![p].calls = Append(@, Call("guests.set", FALSE)),
                        ![p].resp = Json(500, [error |-> "friend_failed"])]
  /\ UNCHANGED <<now, stores, sweep, listing>>

(* ---------------------------------------------------------------------- *)
(* GET /posts                                                              *)
(* ---------------------------------------------------------------------- *)
\* orderBy("createdAt", "desc"): equal createdAt are ordered by document id,
\* descending as well.
Before(coll, i, j) ==
  \/ coll[i].createdAt > coll[j].createdAt
  \/ coll[i].createdAt = coll[j].createdAt /\ i >= j

RECURSIVE OrderDesc(_, _)
OrderDesc(coll, ids) ==
  IF ids = {} THEN <<>>
  ELSE LET first == CHOOSE i \in ids : \A j \in ids : Before(coll, i, j)
       IN  <<first>> \o OrderDesc(coll, ids \ {first})

\* A query without limit(100).
NoLimit(seq, n) == seq

Limit(seq, n) == SubSeq(seq, 1, IF Len(seq) < n THEN Len(seq) ELSE n)

\* items.push({ id: d.id, ...d.data() }) for each document of the snapshot.
Items(coll) ==
  LET order == Limit(OrderDesc(coll, DOMAIN coll), LISTING_LIMIT)
  IN  [k \in 1..Len(order) |-> [id |-> order[k]] @@ coll[order[k]]]

\* The query resolves.
ListOk ==
  /\ listing' = [query |-> "resolved", resp |-> Json(200, [posts |-> Items(posts)])]
  /\ UNCHANGED <<now, stores, pub, sweep>>

\* A catch block that answers with an empty list.
ListFailEmpty ==
  /\ listing' = [query |-> "rejected", resp |-> Json(200, [posts |-> <<>>])]
  /\ UNCHANGED <<now, stores, pub, sweep>>

\* The query throws: the catch block answers.
ListFail ==
  /\ listing' = [query |-> "rejected", resp |-> Json(500, [error |-> "read_failed"])]
  /\ UNCHANGED <<now, stores, pub, sweep>>

(* ---------------------------------------------------------------------- *)
(* cleanupExpiredPostsOnce, started by setTimeout once and by setInterval  *)
(* again and again                                                         *)
(* ---------------------------------------------------------------------- *)
\* where("expiresAt", "<=", t)
Expired(t) == {id \in DOMAIN posts : posts[id].expiresAt <= t}

\* The deletes the forEach callback starts for one document of the snapshot.
DeletesOf(id) ==
  (IF posts[id].file # Null
     THEN {[kind |-> "drive", post |-> id, fileId |-> posts[id].file.id]}
     ELSE {})
  \cup {[kind |-> "doc", post |-> id, fileId |-> 0]}

MayStart(s) == sweep[s].pc = "idle" /\ (s = "interval" \/ ~sweep[s].fired)

\* The timer fires, the query resolves and every delete is started; the run
\* then waits in Promise.all.
SweepQueryOk(s) ==
  /\ MayStart(s)
  /\ sweep' = [sweep EXCEPT ![s] = [pc |-> "deleting", fired |-> TRUE, settled |-> {},
                                    pending |-> UNION {DeletesOf(id) : id \in Expired(now)}]]
  /\ UNCHANGED <<now, stores, pub, listing>>

\* The run without its try/catch: the rejection of the query leaves the
\* function as an unhandled rejection, which ends the process.
SweepQueryFailUncaught(s) ==
  /\ MayStart(s)
  /\ sweep' = [sweep EXCEPT ![s].fired = TRUE, ![s].settled = {}, ![s].pc = "crashed"]
  /\ UNCHANGED <<now, stores, pub, listing>>

\* The timer fires and the query throws: the catch block logs it.
SweepQueryFail(s) ==
  /\ MayStart(s)
  /\ sweep' = [sweep EXCEPT ![s].fired = TRUE, ![s].settled = {}]
  /\ UNCHANGED <<now, stores, pub, listing>>

Settled(op, ok) == [op |-> op, ok |-> ok]

Settle(s, op, ok) ==
  sweep' = [sweep EXCEPT ![s].pending = @ \ {op}, ![s].settled = @ \cup {Settled(op, ok)}]

InFlight(s, kind) == {op \in sweep[s].pending : op.kind = kind}

\* drive.files.delete resolves: the file is gone.
DriveDeleteOk(s) ==
  \E op \in InFlight(s, "drive") :
    /\ op.fileId \in drive
    /\ drive' = drive \ {op.fileId}
    /\ drivePublic' = drivePublic \ {op.fileId}
    /\ Settle(s, op, TRUE)
    /\ UNCHANGED <<now, driveNext, posts, postsNext, guests, pub, listing>>

\* drive.files.delete(...) without its .catch: the rejection rejects
\* Promise.all, the catch block of the run logs it and the run is over while
\* its other deletes are still in flight.
DriveDeleteFailUncaught(s) ==
  \E op \in InFlight(s, "drive") :
    /\ sweep' = [sweep EXCEPT ![s].pending = @ \ {op},
                              ![s].settled = @ \cup {Settled(op, FALSE)},
                              ![s].pc = "idle"]
    /\ UNCHANGED <<now, stores, pub, listing>>

\* drive.files.delete rejects (also when the file does not exist): warned, swallowed.
DriveDeleteFail(s) ==
  \E op \in InFlight(s, "drive") :
    /\ Settle(s, op, FALSE)
    /\ UNCHANGED <<now, stores, pub, listing>>

\* doc(id).delete() resolves: the document is gone (or was gone already).
DocDeleteOk(s) ==
  \E op \in InFlight(s, "doc") :
    /\ posts' = DeleteDoc(posts, op.post)
    /\ Settle(s, op, TRUE)
    /\ UNCHANGED <<now, drive, drivePublic, driveNext, postsNext, guests, pub, listing>>

\* A rejected document delete that is tried again within the run.
DocDeleteFailRetried(s) ==
  \E op \in InFlight(s, "doc") :
    /\ sweep' = [sweep EXCEPT ![s].settled = @ \cup {Settled(op, FALSE)}]
    /\ UNCHANGED <<now, stores, pub, listing>>

\* doc(id).delete() rejects: swallowed.
DocDeleteFail(s) ==
  \E op \in InFlight(s, "doc") :
    /\ Settle(s, op, FALSE)
    /\ UNCHANGED <<now, stores, pub, listing>>

\* Promise.all resolves: "cleanup done".
SweepDone(s) ==
  /\ sweep[s].pc = "deleting"
  /\ sweep[s].pending = {}
  /\ sweep' = [sweep EXCEPT ![s].pc = "idle"]
  /\ UNCHANGED <<now, stores, pub, listing>>

Cleanup(s) ==
  \/ SweepQueryOk(s)
  \/ SweepQueryFail(s)
  \/ DriveDeleteOk(s)
  \/ DriveDeleteFail(s)
  \/ DocDeleteOk(s)
  \/ DocDeleteFail(s)
  \/ SweepDone(s)

(* ---------------------------------------------------------------------- *)
(* The earlier revision of the server (second half of src/server.js):     *)
(* POST /upload with a document id made of guestId and Date.now(), and     *)
(* cleanupPosts                                                            *)
(* ---------------------------------------------------------------------- *)
LegacyGuestIds == {"g1", "g2"}

\* `${guestId}_${Date.now()}`
DerivedId(guestId, t) == <<guestId, "_", t>>

\* The handler up to its first await; req.text stands for req.body.description.
LegacyHandle(p) ==
  /\ pub[p].pc = "idle"
  /\ \E r \in Requests(LegacyGuestIds \cup {""}, {"t"}, SmallTexts) :
       IF r.guestId = "" \/ r.title = ""
         THEN pub' = [pub EXCEPT ![p].req = r, ![p].pc = "done",
                       ![p].resp = Json(400, "Missing guestId or title")]
       ELSE pub' = [pub EXCEPT ![p].req = r,
                               ![p].pc = IF r.file # Null THEN "upload" ELSE "store"]
  /\ UNCHANGED <<now, stores, sweep, listing>>

\* await drive.files.create(...) resolves: fileUrl is set.
LegacyUploadOk(p) ==
  /\ pub[p].pc = "upload"
  /\ LET fileId == driveNext + 1 IN
       /\ driveNext' = fileId
       /\ drive' = drive \cup {fileId}
       /\ pub' = [pub EXCEPT ![p].pc = "store",
                             ![p].calls = Append(@, Call("drive.files.create", TRUE)),
                             ![p].data = [id |-> fileId],
                             ![p].fileMeta = [url |-> FileUrl(fileId)]]
  /\ UNCHANGED <<now, drivePublic, posts, postsNext, guests, sweep, listing>>

\* await drive.files.create(...) throws; the handler has no catch block and
\* the request is never answered.
LegacyUploadFail(p) ==
  /\ pub[p].pc = "upload"
  /\ pub' = [pub EXCEPT ![p].pc = "done",
                        ![p].calls = Append(@, Call("drive.files.create", FALSE))]
  /\ UNCHANGED <<now, stores, sweep, listing>>

\* The document literal: Date.now() is read for the id, and once more, d
\* milliseconds later, for createdAt.
LegacyPayload(p, d) ==
  [guestId |-> pub[p].req.guestId, title |-> pub[p].req.title,
   description |-> pub[p].req.text,
   fileUrl |-> IF pub[p].fileMeta = Null THEN Null ELSE pub[p].fileMeta,
   createdAt |-> now + d]

\* doc(db, "posts", id) and await setDoc(postDoc, {...}) resolves; the handler
\* answers { success, fileUrl }.
LegacyStoreOk(p) ==
  /\ pub[p].pc = "store"
  /\ \E d \in ClockDrifts :
       LET id == DerivedId(pub[p].req.guestId, now) IN
         /\ now' = now + d
         /\ posts' = SetDoc(posts, id, LegacyPayload(p, d))
         /\ pub' = [pub EXCEPT ![p].pc = "done", ![p].docRef = [id |-> id],
                               ![p].payload = LegacyPayload(p, d),
                               ![p].calls = Append(@, Call("posts.set", TRUE)),
                               ![p].resp = Json(200, [success |-> TRUE,
                                                      fileUrl |-> LegacyPayload(p, d).fileUrl])]
  /\ UNCHANGED <<drive, drivePublic, driveNext, postsNext, guests, sweep, listing>>

\* await setDoc(...) throws: the request is never answered.
LegacyStoreFail(p) ==
  /\ pub[p].pc = "store"
  /\ \E d \in ClockDrifts :
       LET id == DerivedId(pub[p].req.guestId, now) IN
         /\ now' = now + d
         /\ pub' = [pub EXCEPT ![p].pc = "done", ![p].docRef = [id |-> id],
                               ![p].payload = LegacyPayload(p, d),
                               ![p].calls = Append(@, Call("posts.set", FALSE))]
  /\ UNCHANGED <<drive, drivePublic, driveNext, posts, postsNext, guests, sweep, listing>>

LegacyContinue(p) ==
  \/ LegacyUploadOk(p)
  \/ LegacyUploadFail(p)
  \/ LegacyStoreOk(p)
  \/ LegacyStoreFail(p)

\* now - post.createdAt > CLEANUP_HOURS * 3600 * 1000
LegacyExpired(t) == {id \in DOMAIN posts : t - posts[id].createdAt > TtlMs}

\* post.fileUrl.split("id=")[1]
FileIdOfUrl(fileUrl) == fileUrl.url[2]

LegacyDocDeleteOf(id) == [kind |-> "doc", post |-> id, fileId |-> 0]

\* The call the async callback of forEach starts with for one document: the
\* file delete when the post has a fileUrl, the document delete otherwise.
LegacyFirstDeleteOf(id) ==
  IF posts[id].fileUrl # Null
    THEN [kind |-> "drive", post |-> id, fileId |-> FileIdOfUrl(posts[id].fileUrl)]
    ELSE LegacyDocDeleteOf(id)

\* The timer of setInterval fires, getDocs resolves with the whole collection,
\* Date.now() is read and the callback runs up to its first await for every
\* old post. The run is over when its callbacks are.
LegacyQueryOk(s) ==
  /\ MayStart(s)
  /\ sweep' = [sweep EXCEPT ![s] = [pc |-> "deleting", fired |-> TRUE, settled |-> {},
                                    pending |-> {LegacyFirstDeleteOf(id) : id \in LegacyExpired(now)}]]
  /\ UNCHANGED <<now, stores, pub, listing>>

\* getDocs throws: cleanupPosts rejects and nothing is deleted.
LegacyQueryFail(s) ==
  /\ MayStart(s)
  /\ sweep' = [sweep EXCEPT ![s].fired = TRUE, ![s].settled = {}]
  /\ UNCHANGED <<now, stores, pub, listing>>

\* The file delete has settled: the callback goes on to the document delete.
LegacyAfterDrive(s, op, ok) ==
  sweep' = [sweep EXCEPT ![s].pending = (@ \ {op}) \cup {LegacyDocDeleteOf(op.post)},
                         ![s].settled = @ \cup {Settled(op, ok)}]

\* await drive.files.delete({ fileId }) resolves.
LegacyDriveDeleteOk(s) ==
  \E op \in InFlight(s, "drive") :
    /\ op.fileId \in drive
    /\ drive' = drive \ {op.fileId}
    /\ drivePublic' = drivePublic \ {op.fileId}
    /\ LegacyAfterDrive(s, op, TRUE)
    /\ UNCHANGED <<now, driveNext, posts, postsNext, guests, pub, listing>>

\* await drive.files.delete({ fileId }).catch(() => {}) after a rejection.
LegacyDriveDeleteFail(s) ==
  \E op \in InFlight(s, "drive") :
    /\ LegacyAfterDrive(s, op, FALSE)
    /\ UNCHANGED <<now, stores, pub, listing>>

\* doc(db, "posts", docSnap.id).delete(): the references of the modular
\* firebase/firestore API imported by this revision (line 260) have no delete method
\* (deleting is deleteDoc(ref), which is not imported), so the call throws a
\* TypeError before any request is made; the callback rejects and the
\* document stays.
LegacyDocDelete(s) ==
  \E op \in InFlight(s, "doc") :
    /\ Settle(s, op, FALSE)
    /\ UNCHANGED <<now, stores, pub, listing>>

\* Every callback of the run is over.
LegacySweepDone(s) ==
  /\ sweep[s].pc = "deleting"
  /\ sweep[s].pending = {}
  /\ sweep' = [sweep EXCEPT ![s].pc = "idle"]
  /\ UNCHANGED <<now, stores, pub, listing>>

cleanupPosts(s) ==
  \/ LegacyQueryOk(s)
  \/ LegacyQueryFail(s)
  \/ LegacyDriveDeleteOk(s)
  \/ LegacyDriveDeleteFail(s)
  \/ LegacyDocDelete(s)
  \/ LegacySweepDone(s)

(* ---------------------------------------------------------------------- *)
(* Specifications                                                          *)
(* ---------------------------------------------------------------------- *)
\* One request, and both timers of the cleanup job.
Next ==
  \/ Tick
  \/ Handle("p1")
  \/ Continue("p1")
  \/ \E s \in Sweeps : Cleanup(s)

Spec == Init /\ [][Next]_vars

\* Two requests in flight at once, and the cleanup run of setTimeout.
InitConc == Init /\ guests # NoDocs

NextConc ==
  \/ Tick
  \/ \E p \in Publishers : HandleValid(p) \/ Continue(p)
  \/ Cleanup("timeout")

ConcSpec == InitConc /\ [][NextConc]_vars

\* Requests and listings.
NextList ==
  \/ Tick
  \/ \E p \in Publishers : HandleValid(p) \/ Continue(p)
  \/ ListOk
  \/ ListFail

ListSpec == InitConc /\ [][NextList]_vars

\* One request whose text is at the word limit.
NextWords ==
  \/ HandleBoundary("p1")
  \/ Continue("p1")

WordSpec == Init /\ [][NextWords]_vars

\* One request and the cleanup runs of setInterval. The timer fires again
\* and again, every call it makes settles, and no call fails forever.
NextFair ==
  \/ Tick
  \/ HandleValid("p1")
  \/ Continue("p1")
  \/ Cleanup("interval")

Fairness ==
  /\ WF_vars(SweepQueryOk("interval") \/ SweepQueryFail("interval"))
  /\ WF_vars(DriveDeleteOk("interval") \/ DriveDeleteFail("interval"))
  /\ WF_vars(DocDeleteOk("interval") \/ DocDeleteFail("interval"))
  /\ WF_vars(SweepDone("interval"))
  /\ SF_vars(SweepQueryOk("interval"))
  /\ SF_vars(DriveDeleteOk("interval"))
  /\ SF_vars(DocDeleteOk("interval"))

FairSpec == InitConc /\ [][NextFair]_vars /\ Fairness

\* One request with a file of about the size limit.
NextSized ==
  \/ Tick
  \/ HandleSized("p1")
  \/ Continue("p1")

SizedSpec == Init /\ [][NextSized]_vars

\* The earlier revision: two requests in flight at once.
NextLegacy ==
  \/ Tick
  \/ \E p \in Publishers : LegacyHandle(p) \/ LegacyContinue(p)

LegacySpec == Init /\ [][NextLegacy]_vars

\* The earlier revision: one request and the runs of cleanupPosts.
NextLegacySweep ==
  \/ Tick
  \/ LegacyHandle("p1")
  \/ LegacyContinue("p1")
  \/ cleanupPosts("interval")

LegacySweepSpec == Init /\ [][NextLegacySweep]_vars

\* Two clients, each with one request: a profile upsert, a friend or a post
\* without a file.
NextGuests ==
  \/ Tick
  \/ \E p \in Publishers :
       \/ GuestHandle(p)
       \/ GuestUpsertOk(p)
       \/ GuestUpsertFail(p)
       \/ FriendHandle(p)
       \/ FriendAddOk(p)
       \/ FriendAddFail(p)
       \/ HandleNoFile(p)
       \/ StoreOk(p)
       \/ StoreFail(p)
       \/ GuestSetOk(p)
       \/ GuestSetFail(p)

GuestSpec == Init /\ [][NextGuests]_vars

\* The posts collection as an earlier run of the server has left it: n
\* documents without a file, created at most MaxMs before the start.
StoredPatterns == {"same", "up", "down"}

StoredCreatedAt(i, pattern) ==
  IF pattern = "same" THEN 0
  ELSE IF pattern = "up" THEN i % (MaxMs + 1)
  ELSE MaxMs - (i % (MaxMs + 1))

StoredPosts(n, pattern) ==
  [i \in 1..n |->
     [guestId |-> "g1", title |-> "t", text |-> MkText(0, 2, 1, 0), file |-> Null,
      createdAt |-> StoredCreatedAt(i, pattern),
      expiresAt |-> StoredCreatedAt(i, pattern) + TtlMs]]

StoredCounts == {0, 2, LISTING_LIMIT - 1, LISTING_LIMIT, LISTING_LIMIT + 1}

InitStored ==
  /\ now = MaxMs
  /\ drive = {}
  /\ drivePublic = {}
  /\ driveNext = 0
  /\ \E n \in StoredCounts, pattern \in StoredPatterns :
       posts = StoredPosts(n, pattern) /\ postsNext = n
  /\ guests = ("g1" :> RegisteredGuest)
  /\ pub = [p \in Publishers |-> IdlePub]
  /\ sweep = [s \in Sweeps |-> IdleSweep]
  /\ listing = [query |-> "none", resp |-> Null]

\* One request and listings, over a collection of about LISTING_LIMIT posts.
NextStored ==
  \/ HandleNoFile("p1")
  \/ StoreOk("p1")
  \/ StoreFail("p1")
  \/ GuestSetOk("p1")
  \/ GuestSetFail("p1")
  \/ ListOk
  \/ ListFail

StoredSpec == InitStored /\ [][NextStored]_vars

(* ---------------------------------------------------------------------- *)
(* Properties                                                              *)
(* ---------------------------------------------------------------------- *)
Made(p, op, ok) == \E k \in 1..Len(pub[p].calls) : pub[p].calls[k] = Call(op, ok)

InFlightPub(p) == pub[p].pc \in {"upload", "permission", "store", "guest"}

\* C1: whenever a post document with a file is created, the file of that id
\* is already in Drive, whatever the other request and the cleanup run do.
C1_BlobBeforeMetadata ==
  [][\A id \in DOMAIN posts' \ DOMAIN posts :
       posts'[id].file # Null => posts'[id].file.id \in drive /\ posts'[id].file.id \in drive']_vars

\* A post with a file has just been written while the other request is in
\* flight and the cleanup run has been started.
C1_Witness ==
  \E p \in Publishers, q \in Publishers :
    /\ p # q
    /\ pub[p].pc = "guest"
    /\ pub[p].fileMeta # Null
    /\ pub[p].docRef.id \in DOMAIN posts
    /\ posts[pub[p].docRef.id].file.id \in drive
    /\ InFlightPub(q)
    /\ sweep["timeout"].fired

\* C2: a request whose drive.files.create rejected is answered with an error,
\* has made no other remote call and has created no post document.
C2_UploadFailureAborts ==
  \A p \in Publishers :
    Made(p, "drive.files.create", FALSE) =>
      /\ pub[p].pc = "done"
      /\ pub[p].resp = Json(500, [error |-> "upload_failed", detail |-> "drive.files.create"])
      /\ pub[p].calls = <<Call("drive.files.create", FALSE)>>
      /\ pub[p].docRef = Null
      /\ pub[p].payload = Null

C2_Witness ==
  \E p \in Publishers : Made(p, "drive.files.create", FALSE) /\ pub[p].resp.status = 500

\* C4: the stored and returned post of a successful request without a file
\* has expiresAt - createdAt = CLEANUP_HOURS * 3600 * 1000.
C4_TtlExact ==
  \A p \in Publishers :
    (pub[p].resp # Null /\ pub[p].resp.status = 200 /\ pub[p].req.file = Null) =>
      /\ pub[p].resp.body.payload.expiresAt - pub[p].resp.body.payload.createdAt = TtlMs
      /\ \A id \in DOMAIN posts :
           posts[id].file = Null => posts[id].expiresAt - posts[id].createdAt = TtlMs

\* C5: a request without guestId or without title is answered 400 and makes
\* no remote call at all.
C5_MissingFieldsRejected ==
  \A p \in Publishers :
    (pub[p].req # Null /\ (pub[p].req.guestId = "" \/ pub[p].req.title = "")) =>
      /\ pub[p].pc = "done"
      /\ pub[p].resp = Json(400, [error |-> "guestId & title required"])
      /\ pub[p].calls = <<>>
      /\ pub[p].docRef = Null

C5_Witness ==
  \E p \in Publishers :
    /\ pub[p].req # Null
    /\ pub[p].req.guestId = ""
    /\ pub[p].req.title # ""
    /\ pub[p].resp.status = 400

TextRejected(p) == pub[p].resp = Json(400, [error |-> "text_too_long"])

\* C6: a text of exactly WORD_LIMIT words is accepted, and a text of
\* WORD_LIMIT + 1 words is rejected before any remote call, wherever the
\* whitespace of the text is.
C6_WordLimitBoundary ==
  \A p \in Publishers :
    pub[p].req # Null =>
      LET n == WordCount(Chars(pub[p].req.text)) IN
        /\ n = WORD_LIMIT => ~TextRejected(p)
        /\ n = WORD_LIMIT + 1 => TextRejected(p) /\ pub[p].calls = <<>>

\* C7: a rejected permission grant does not end the request: the handler goes
\* on to the post write with the file's metadata, an error response can only
\* come from a later write, and when the later writes resolve the post has
\* been written with the file and the response is a success.
C7_GrantFailureDoesNotAbort ==
  \A p \in Publishers :
    Made(p, "drive.permissions.create", FALSE) =>
      /\ pub[p].pc \in {"store", "guest", "done"}
      /\ pub[p].fileMeta = [id |-> pub[p].data.id, url |-> FileUrl(pub[p].data.id),
                            name |-> pub[p].data.name]
      /\ pub[p].payload # Null => pub[p].payload.file = pub[p].fileMeta
      /\ (pub[p].pc = "done" /\ pub[p].resp.status # 200) =>
           Made(p, "posts.set", FALSE) \/ Made(p, "guests.set", FALSE)
      /\ (pub[p].pc = "done" /\ ~Made(p, "posts.set", FALSE) /\ ~Made(p, "guests.set", FALSE)) =>
           /\ Made(p, "posts.set", TRUE)
           /\ pub[p].resp.status = 200
           /\ pub[p].resp.body.payload.file = pub[p].fileMeta

C7_Witness ==
  \E p \in Publishers :
    /\ Made(p, "drive.permissions.create", FALSE)
    /\ pub[p].pc = "done"
    /\ pub[p].resp.status = 200
    /\ pub[p].resp.body.payload.file # Null
    /\ pub[p].resp.body.payload.file.id \notin drivePublic

\* C8: once docRef.set has resolved, the request ends with a success response
\* that carries the id of the document and the payload that was stored.
C8_StoredImpliesSuccess ==
  \A p \in Publishers :
    (Made(p, "posts.set", TRUE) /\ pub[p].pc = "done") =>
      /\ pub[p].resp.status = 200
      /\ pub[p].resp.body.id = pub[p].docRef.id
      /\ pub[p].resp.body.payload = pub[p].payload

\* The ids Firestore and Drive can have assigned: one per request at most.
Ids == 1..Cardinality(Publishers)

\* C3: under the fair scheduling of the cleanup job, every expired post is
\* eventually gone from the posts collection and its file is eventually gone
\* from Drive.
C3_SweepEventuallyCleans ==
  /\ \A id \in Ids :
       (id \in DOMAIN posts /\ posts[id].expiresAt <= now) ~> (id \notin DOMAIN posts)
  /\ \A id \in Ids, b \in Ids :
       (id \in DOMAIN posts /\ posts[id].expiresAt <= now
          /\ posts[id].file # Null /\ posts[id].file.id = b)
       ~> (id \notin DOMAIN posts /\ b \notin drive)

\* The documents are reclaimed: every expired post is eventually gone from
\* the posts collection. Only files can be left behind.
ExpiredPostEventuallyDeleted ==
  \A id \in Ids :
    (id \in DOMAIN posts /\ posts[id].expiresAt <= now) ~> (id \notin DOMAIN posts)

\* C9 as stated: no step changes the guests collection.
C9_GuestsNeverMutated == [][guests' = guests]_vars

\* The step is the lastPostAt write of request p: the document of the
\* request's guestId gains or changes the field lastPostAt and nothing else.
LastPostAtWrite(p) ==
  LET g == pub[p].req.guestId IN
    /\ pub[p].pc = "guest"
    /\ pub'[p].pc = "done"
    /\ Made(p, "posts.set", TRUE)
    /\ DOMAIN guests' = DOMAIN guests \cup {g}
    /\ \A h \in DOMAIN guests \ {g} : guests'[h] = guests[h]
    /\ DOMAIN guests'[g] = (IF g \in DOMAIN guests THEN DOMAIN guests[g] ELSE {}) \cup {"lastPostAt"}
    /\ \A f \in DOMAIN guests'[g] \ {"lastPostAt"} : guests'[g][f] = guests[g][f]

\* C9 (amended): a step of the cleanup job never changes the guests
\* collection, and a step of a request changes it only by the lastPostAt write
\* that follows the post write.
C9_GuestsOnlyLastPostAt ==
  [][/\ sweep' # sweep => guests' = guests
     /\ (pub' # pub /\ guests' # guests) => \E p \in Publishers : LastPostAtWrite(p)]_vars

\* A registered guest has published: lastPostAt is set, the profile is as it was.
C9_Witness ==
  /\ "g1" \in DOMAIN guests
  /\ "lastPostAt" \in DOMAIN guests["g1"]
  /\ "friends" \in DOMAIN guests["g1"]
  /\ guests["g1"].friends = RegisteredGuest.friends
  /\ guests["g1"].name = RegisteredGuest.name

\* C10 as stated: when the query of GET /posts rejects, the response is an
\* empty list of posts.
C10_ListFailureGivesEmpty ==
  listing.query = "rejected" => listing.resp = Json(200, [posts |-> <<>>])

\* C10 (amended): when the query of GET /posts rejects, the response is the
\* error 500 read_failed, which carries no posts.
C10_ListFailureGivesError ==
  listing.query = "rejected" => listing.resp = Json(500, [error |-> "read_failed"])

C10_Witness == listing.query = "rejected" /\ DOMAIN posts # {}

\* items is ordered by createdAt, latest first.
Descending(items) ==
  \A k \in 1..(Len(items) - 1) : items[k].createdAt >= items[k + 1].createdAt

\* Every item is a document of coll with its id, and no document comes twice.
DrawnFrom(items, coll) ==
  /\ \A k \in 1..Len(items) :
       /\ items[k].id \in DOMAIN coll
       /\ items[k] = [id |-> items[k].id] @@ coll[items[k].id]
  /\ Cardinality({items[k].id : k \in 1..Len(items)}) = Len(items)

\* No document left out of items is more recent than one of items.
MostRecent(items, coll) ==
  \A id \in DOMAIN coll \ {items[k].id : k \in 1..Len(items)} :
    \A k \in 1..Len(items) : coll[id].createdAt <= items[k].createdAt

\* C11: a listing whose query resolves answers with at most LISTING_LIMIT
\* posts, latest first, each of them a document of the collection that was
\* read, and they are the most recent ones when the collection holds more.
C11_ListingBoundedOrdered ==
  [][(listing' # listing /\ listing'.query = "resolved") =>
       LET items == listing'.resp.body.posts IN
         /\ listing'.resp.status = 200
         /\ Len(items) <= LISTING_LIMIT
         /\ Len(items) = LISTING_LIMIT \/ Len(items) = Cardinality(DOMAIN posts)
         /\ Descending(items)
         /\ DrawnFrom(items, posts)
         /\ MostRecent(items, posts)]_vars

\* A listing of LISTING_LIMIT posts out of more, the new post among them.
C11_Witness ==
  /\ listing.query = "resolved"
  /\ Len(listing.resp.body.posts) = LISTING_LIMIT
  /\ Cardinality(DOMAIN posts) > LISTING_LIMIT
  /\ listing.resp.body.posts[1].id = LISTING_LIMIT + 1
  /\ listing.resp.body.posts[1].createdAt > listing.resp.body.posts[2].createdAt

\* Two requests have written their post under the same document id.
SameId(p, q) ==
  /\ p # q
  /\ Made(p, "posts.set", TRUE)
  /\ Made(q, "posts.set", TRUE)
  /\ pub[p].docRef.id = pub[q].docRef.id

\* C12: two requests that have both written their post have written it under
\* different document ids, so that no post write replaces an existing post.
C12_PostIdsUnique ==
  /\ \A p \in Publishers, q \in Publishers : ~SameId(p, q)
  /\ Cardinality(DOMAIN posts) = Cardinality({p \in Publishers : Made(p, "posts.set", TRUE)})

\* The ids of collection("posts").doc() are unique: every post write adds a
\* document to the collection and leaves the others as they are.
AutoIdsUnique ==
  [][\A id \in DOMAIN posts : id \in DOMAIN posts' => posts'[id] = posts[id]]_vars

TooLarge(r) == r # Null /\ r.file # Null /\ r.file.size > FILE_SIZE_LIMIT

\* C13: a request whose file is larger than FILE_SIZE_LIMIT is answered with
\* an error, makes no remote call (no file is uploaded to Drive) and leaves
\* no post document.
C13_OversizeRejected ==
  \A p \in Publishers :
    TooLarge(pub[p].req) =>
      /\ pub[p].pc = "done"
      /\ pub[p].resp.status >= 400
      /\ pub[p].calls = <<>>
      /\ pub[p].docRef = Null
      /\ drive = {} /\ driveNext = 0
      /\ posts = NoDocs

\* A valid request with a file of 25 MiB has been answered.
C13_Witness ==
  /\ pub["p1"].req # Null
  /\ pub["p1"].req.guestId = "g1"
  /\ pub["p1"].req.title = "t"
  /\ pub["p1"].req.file # Null
  /\ pub["p1"].req.file.size = 25 * 1024 * 1024
  /\ pub["p1"].resp # Null

\* The target of the delete op is gone already.
Redundant(op) ==
  \/ op.kind = "drive" /\ op.fileId \notin drive
  \/ op.kind = "doc" /\ op.post \notin DOMAIN posts

\* C14: a delete of the cleanup job whose file or document is gone already
\* settles like any other, the run goes on waiting for its other deletes,
\* and the stores stay as they are; what a delete has removed stays removed
\* whatever the other run does.
C14_DeleteIdempotent ==
  [][\A s \in Sweeps :
       /\ \A op \in sweep[s].pending \ sweep'[s].pending :
            Redundant(op) =>
              /\ stores' = stores
              /\ sweep'[s].pc = "deleting"
              /\ sweep'[s].pending = sweep[s].pending \ {op}
       /\ \A e \in sweep'[s].settled :
            e.ok => IF e.op.kind = "drive" THEN e.op.fileId \notin drive'
                    ELSE e.op.post \notin DOMAIN posts']_vars

\* Both runs have found the same expired post and have finished: both
\* document deletes resolved, and the file delete of one run was rejected
\* after the file delete of the other run had removed the file.
C14_Witness ==
  /\ sweep["timeout"].pc = "idle"
  /\ sweep["interval"].pc = "idle"
  /\ \E e \in sweep["timeout"].settled :
       /\ e.op.kind = "doc" /\ e.ok
       /\ e \in sweep["interval"].settled
  /\ \E e \in sweep["timeout"].settled :
       /\ e.op.kind = "drive" /\ e.ok
       /\ Settled(e.op, FALSE) \in sweep["interval"].settled
  /\ drive = {}
  /\ posts = NoDocs

\* C15: a run has the document delete of a post in flight only when the file
\* delete of that post has settled.
C15_DocDeleteAfterBlobDelete ==
  \A s \in Sweeps :
    \A op \in InFlight(s, "doc") : \A b \in InFlight(s, "drive") : b.post # op.post

\* The expiry time of a post: its field expiresAt, and createdAt plus the
\* time to live for the posts of the earlier revision, which have no such field.
ExpiresAt(post) ==
  IF "expiresAt" \in DOMAIN post THEN post.expiresAt ELSE post.createdAt + TtlMs

\* The file a post document refers to, as a set.
FilesOf(post) ==
  IF "file" \in DOMAIN post
    THEN (IF post.file # Null THEN {post.file.id} ELSE {})
    ELSE (IF post.fileUrl # Null THEN {FileIdOfUrl(post.fileUrl)} ELSE {})

\* The files of the requests in flight that no post refers to yet.
UnpublishedFiles ==
  {pub[p].data.id : p \in {q \in Publishers : InFlightPub(q) /\ pub[q].data # Null
                                               /\ ~Made(q, "posts.set", TRUE)}}

\* C16: a run that starts at clock value now has deletes in flight for
\* exactly the posts with expiresAt <= now; every document a step deletes is
\* one of an expired post, and every file a step deletes is the file of an
\* expired post that a run has a delete in flight for, never the file of a
\* request in flight.
C16_SweepDeletesExactlyExpired ==
  [][/\ \A s \in Sweeps :
          (sweep[s].pc = "idle" /\ sweep'[s].pc = "deleting") =>
            /\ {op.post : op \in sweep'[s].pending} =
                 {id \in DOMAIN posts : ExpiresAt(posts[id]) <= now}
            /\ \A op \in sweep'[s].pending :
                 op.kind = "drive" => op.fileId \in FilesOf(posts[op.post])
     /\ \A s \in Sweeps : \A op \in sweep'[s].pending \ sweep[s].pending :
          op.post \in DOMAIN posts => ExpiresAt(posts[op.post]) <= now
     /\ \A id \in DOMAIN posts \ DOMAIN posts' : ExpiresAt(posts[id]) <= now
     /\ \A b \in drive \ drive' :
          /\ b \notin UnpublishedFiles
          /\ \E s \in Sweeps : \E op \in InFlight(s, "drive") : op.fileId = b
          /\ \A id \in DOMAIN posts : b \in FilesOf(posts[id]) => ExpiresAt(posts[id]) <= now]_vars

\* The document deletes of run s that were rejected.
FailedDocDeletes(s) == {e \in sweep[s].settled : e.op.kind = "doc" /\ ~e.ok}

\* C17: a run issues every delete once (a delete that has settled is not in
\* flight again, and a run in progress starts no new delete); the step in
\* which a document delete is rejected leaves the posts collection as it is;
\* and a run whose query resolves has a document delete in flight for every
\* post whose delete was rejected before and that is still there.
C17_FailedDeleteRetriedNextRun ==
  [][\A s \in Sweeps :
       /\ \A e \in sweep'[s].settled : e.op \notin sweep'[s].pending
       /\ (sweep[s].pc = "deleting" /\ sweep'[s].pc = "deleting") =>
            sweep'[s].pending \subseteq sweep[s].pending
       /\ \A e \in sweep'[s].settled \ sweep[s].settled :
            (e.op.kind = "doc" /\ ~e.ok) => posts' = posts
       /\ (sweep[s].pc = "idle" /\ sweep'[s].pc = "deleting") =>
            \A t \in Sweeps : \A e \in FailedDocDeletes(t) :
              e.op.post \in DOMAIN posts =>
                /\ e.op \in sweep'[s].pending
                /\ posts[e.op.post].expiresAt <= now]_vars

\* The document delete of a post was rejected in the run of setTimeout, which
\* is over; the post is as it was and the run of setInterval has its delete
\* in flight.
C17_Witness ==
  /\ sweep["timeout"].pc = "idle"
  /\ sweep["interval"].pc = "deleting"
  /\ \E e \in FailedDocDeletes("timeout") :
       /\ e.op \in sweep["interval"].pending
       /\ e.op.post \in DOMAIN posts
       /\ pub["p1"].payload = posts[e.op.post]

\* The files that a post document has referred to at some time: the files of
\* the requests whose post write resolved.
EverReferenced ==
  {pub[p].fileMeta.id : p \in {q \in Publishers : Made(q, "posts.set", TRUE)
                                                   /\ pub[q].fileMeta # Null}}

\* C18: when no run of the cleanup job is in progress, the file of every
\* post is in Drive, and every file in Drive that a post has referred to is
\* the file of a post of the collection.
C18_NoDanglingNoOrphan ==
  (\A s \in Sweeps : sweep[s].pc = "idle") =>
    /\ \A id \in DOMAIN posts : posts[id].file # Null => posts[id].file.id \in drive
    /\ \A b \in EverReferenced \cap drive :
         \E id \in DOMAIN posts : posts[id].file # Null /\ posts[id].file.id = b

\* C19: a run of the cleanup job is either not started or waiting for its
\* deletes, never ended by an error; every run that has started comes to its
\* end, whichever of its calls are rejected; and the timer of setInterval
\* goes on starting runs.
C19_SweepTerminatesAndRepeats ==
  /\ [](\A s \in Sweeps : sweep[s].pc \in {"idle", "deleting"})
  /\ (sweep["interval"].pc = "deleting") ~> (sweep["interval"].pc = "idle")
  /\ []<>(sweep["interval"].pc = "deleting")

\* A run in which the file delete and the document delete of a post were
\* both rejected has come to its end.
C19_Witness ==
  /\ sweep["interval"].pc = "idle"
  /\ \E e \in FailedDocDeletes("interval") :
       \E f \in sweep["interval"].settled :
         f.op.kind = "drive" /\ ~f.ok /\ f.op.post = e.op.post

NoDuplicates(arr) == Cardinality(Elements(arr)) = Len(arr)

\* Request p is a POST /friend whose set resolves in this step.
FriendStep(p) == pub[p].pc = "friend" /\ pub'[p].pc = "done" /\ pub'[p].resp.status = 200

\* Request p is a POST /guest whose set resolves in this step.
ProfileStep(p) == pub[p].pc = "profile" /\ pub'[p].pc = "done" /\ pub'[p].resp.status = 200

\* C20: no step removes a guest document or an element of a friends array;
\* a POST /friend leaves friends as it is when friendId is in it already and
\* adds friendId at its end otherwise, so that friends never holds an id
\* twice; a POST /guest leaves the friends of its guest as they are.
C20_FriendsUnionSemantics ==
  [][/\ \A g \in DOMAIN guests :
          /\ g \in DOMAIN guests'
          /\ "friends" \in DOMAIN guests[g] =>
               /\ "friends" \in DOMAIN guests'[g]
               /\ SubSeq(guests'[g].friends, 1, Len(guests[g].friends)) = guests[g].friends
     /\ \A g \in DOMAIN guests' :
          "friends" \in DOMAIN guests'[g] => NoDuplicates(guests'[g].friends)
     /\ \A p \in Publishers :
          FriendStep(p) =>
            LET g == pub[p].req.guestId
                f == pub[p].req.friendId
                old == FriendsOf(guests, g)
            IN  /\ g \in DOMAIN guests'
                /\ guests'[g].friends = (IF f \in Elements(old) THEN old ELSE Append(old, f))
     /\ \A p \in Publishers :
          ProfileStep(p) =>
            LET g == pub'[p].resp.body.guestId IN
              /\ g \in DOMAIN guests'
              /\ FriendsOf(guests', g) = FriendsOf(guests, g)
              /\ ("friends" \in DOMAIN guests'[g]) = (g \in DOMAIN guests /\ "friends" \in DOMAIN guests[g])]_vars

\* Both clients have added the same friend to the registered guest: the
\* friend is in friends once.
C20_Witness ==
  /\ \A p \in Publishers :
       /\ pub[p].pc = "done"
       /\ pub[p].req = [guestId |-> "g1", friendId |-> "g3"]
       /\ pub[p].resp = Json(200, [success |-> TRUE])
  /\ guests["g1"].friends = <<"g2", "g3">>
  /\ guests["g1"].name = RegisteredGuest.name

\* A profile upsert of the registered guest after a friend was added: the
\* friends are as they were.
UpsertKeepsFriends ==
  /\ pub["p1"].pc = "done" /\ pub["p1"].req = [guestId |-> "g1", friendId |-> "g3"]
  /\ pub["p2"].pc = "done" /\ "email" \in DOMAIN pub["p2"].req
  /\ pub["p2"].resp.status = 200
  /\ "g1" \in DOMAIN guests
  /\ guests["g1"].name = "n2"
  /\ guests["g1"].friends = <<"g2", "g3">>

====
